---------------------------- MODULE Spec2Model ----------------------------
(***************************************************************************)
(* Model of packages/cli/index.js: the StreamingBuffer cursor over a Node  *)
(* Buffer and the RIFF/WAVE reader built on it (readFile, readChunk,       *)
(* readFmtChunk, readFactChunk, readDataChunk).                            *)
(*                                                                         *)
(* Representation.                                                         *)
(*  - A Buffer is a sequence of bytes (0..255); offset o of the Buffer is  *)
(*    element o + 1 of the sequence.                                       *)
(*  - A JavaScript string is the sequence of its UTF-16 code units.        *)
(*  - A value that may be `undefined` is a sequence of length at most one: *)
(*    None is undefined, Some(v) is the value v.                           *)
(*  - A cursor operation is an operator from (buffer, position) to a       *)
(*    record [ok, value, pos]: ok = FALSE is a thrown exception, pos is    *)
(*    _position when the call returns or throws.                           *)
(*  - A quotient of two JavaScript numbers is kept exact, as a reduced     *)
(*    fraction, or as NaN / +Infinity / -Infinity (rounding to a double is *)
(*    not modelled).                                                       *)
(***************************************************************************)
EXTENDS Integers, Sequences, FiniteSets, TLC

VARIABLES
    buffer,     \* StreamingBuffer._buffer of the cursor in use
    position,   \* StreamingBuffer._position of the cursor in use
    last,       \* the last cursor operation called directly: what, from where, outcome
    pc,         \* where the running readFile call is
    fresh,      \* TRUE until the first readFile call of the process has ended
    isRIFF,     \* readFile's local isRIFF
    chunkSize,  \* readFile's local chunkSize (the RIFF size field)
    waveID,     \* readFile's local waveID
    chunk,      \* readFile's local chunk (first readChunk's return value)
    dataChunk,  \* readFile's local dataChunk (second readChunk's return value)
    fmtChunk,   \* the module-level variable fmtChunk
    error,      \* the exception that ended the running readFile call, or "none"
    trace       \* one entry per readChunk call of the running readFile call

cursorVars == <<buffer, position, last>>
decodeVars == <<pc, fresh, isRIFF, chunkSize, waveID, chunk, dataChunk, fmtChunk, error, trace>>
vars == <<buffer, position, last, pc, fresh, isRIFF, chunkSize, waveID, chunk,
          dataChunk, fmtChunk, error, trace>>

-----------------------------------------------------------------------------
(* Bounds of the model *)

\* longest buffer handed to the cursor operations in CursorSpec
MaxLen == 5
\* largest amount passed to advance, and largest length passed to readString/peakString
MaxAmount == 3
\* most chunks written after the 12-byte header of a decoded buffer
MaxChunks == 2

-----------------------------------------------------------------------------
(* JavaScript values *)

None == <<>>
Some(v) == <<v>>
IsSome(o) == Len(o) = 1
Get(o) == o[1]

\* String.fromCharCode(code): the one-character string of that code unit
fromCharCode(code) == <<code % 65536>>

\* the string literals of the source, as code units
StrFmt == <<102, 109, 116, 32>>
StrFact == <<102, 97, 99, 116>>
StrData == <<100, 97, 116, 97>>

-----------------------------------------------------------------------------
(* Node's Buffer reads.  Each throws a RangeError (ERR_OUT_OF_RANGE) unless  *)
(* offset .. offset + width - 1 lies inside the buffer.                      *)

InRange(buf, offset, width) == offset >= 0 /\ offset + width <= Len(buf)

BufReadUint8(buf, offset) == buf[offset + 1]

BufReadUInt16LE(buf, offset) == buf[offset + 1] + 256 * buf[offset + 2]

\* Buffer.readInt32LE: first + second * 2^8 + third * 2^16 + (last << 24),
\* where last << 24 is a signed 32-bit value
BufReadInt32LE(buf, offset) ==
    LET b3 == buf[offset + 4]
        top == IF b3 >= 128 THEN b3 - 256 ELSE b3
    IN  buf[offset + 1] + 256 * buf[offset + 2] + 65536 * buf[offset + 3]
          + 16777216 * top

-----------------------------------------------------------------------------
(* StreamingBuffer *)

\* a call that returned v, and a call that threw a RangeError, leaving _position = p
Ok(v, p) == [ok |-> TRUE, err |-> "none", value |-> v, pos |-> p]
Throw(p) == [ok |-> FALSE, err |-> "RangeError", value |-> None, pos |-> p]

reset(buf, pos) == Ok(None, 0)

advance(buf, pos, amount) == Ok(None, pos + amount)

readUint8(buf, pos) ==
    IF InRange(buf, pos, 1) THEN Ok(BufReadUint8(buf, pos), pos + 1) ELSE Throw(pos)

peakUint8(buf, pos) ==
    IF InRange(buf, pos, 1) THEN Ok(BufReadUint8(buf, pos), pos + 1) ELSE Throw(pos)

readUInt16LE(buf, pos) ==
    IF InRange(buf, pos, 2) THEN Ok(BufReadUInt16LE(buf, pos), pos + 2) ELSE Throw(pos)

readUInt32LE(buf, pos) ==
    IF InRange(buf, pos, 4) THEN Ok(BufReadInt32LE(buf, pos), pos + 4) ELSE Throw(pos)

readChar(buf, pos) ==
    LET r == readUint8(buf, pos)
    IN  IF r.ok THEN Ok(fromCharCode(r.value), r.pos) ELSE Throw(r.pos)

peakChar(buf, pos) ==
    LET r == peakUint8(buf, pos)
    IN  IF r.ok THEN Ok(fromCharCode(r.value), r.pos) ELSE Throw(r.pos)

\* the loop of readString from iteration i on, value being the string so far
RECURSIVE readStringLoop(_, _, _, _, _)
readStringLoop(buf, pos, length, i, value) ==
    IF i >= length
    THEN Ok(value, pos)
    ELSE LET r == readChar(buf, pos)
         IN  IF r.ok
             THEN readStringLoop(buf, r.pos, length, i + 1, value \o r.value)
             ELSE Throw(r.pos)

readString(buf, pos, length) == readStringLoop(buf, pos, length, 0, <<>>)

\* the loop of peakString from iteration i on
RECURSIVE peakStringLoop(_, _, _, _, _)
peakStringLoop(buf, pos, length, i, value) ==
    IF i >= length
    THEN Ok(value, pos)
    ELSE LET r == peakChar(buf, pos)
         IN  IF r.ok
             THEN peakStringLoop(buf, r.pos, length, i + 1, value \o r.value)
             ELSE Throw(r.pos)

peakString(buf, pos, length) == peakStringLoop(buf, pos, length, 0, <<>>)

-----------------------------------------------------------------------------
(* The chunk readers *)

\* obj.name of a JavaScript object: undefined when the object has no such property
Prop(obj, name) == IF name \in DOMAIN obj THEN obj[name] ELSE None

RECURSIVE Gcd(_, _)
Gcd(a, b) == IF b = 0 THEN a ELSE Gcd(b, a % b)

Abs(n) == IF n < 0 THEN -n ELSE n

\* a / b of two JavaScript values, a a number and b a number or undefined
Divide(a, b) ==
    IF ~IsSome(b) THEN [kind |-> "NaN", num |-> 0, den |-> 0]
    ELSE IF Get(b) = 0
    THEN IF a = 0 THEN [kind |-> "NaN", num |-> 0, den |-> 0]
         ELSE IF a > 0 THEN [kind |-> "Infinity", num |-> 0, den |-> 0]
         ELSE [kind |-> "-Infinity", num |-> 0, den |-> 0]
    ELSE LET g == Gcd(Abs(a), Abs(Get(b)))
             s == IF Get(b) < 0 THEN -1 ELSE 1
         IN  [kind |-> "number", num |-> s * (a \div g), den |-> s * (Get(b) \div g)]

\* FmtFields with the extension threshold compared by > instead of >=
FmtFieldsStrictThreshold(size) ==
    << <<"formatCode", "u16">>,
       <<"channels", "u16">>,
       <<"sampleRate", "u32">>,
       <<"dataRate", "u32">>,
       <<"blockSize", "u16">>,
       <<"bitsPerSample", "u16">>,
       <<"extensionSize", IF size > 18 THEN "u16" ELSE "undefined">>,
       <<"validBits", IF size > 40 THEN "u16" ELSE "undefined">>,
       <<"speakerPositionMask", IF size > 40 THEN "u32" ELSE "undefined">>,
       <<"subFormat", IF size > 40 THEN "str16" ELSE "undefined">> >>

\* the properties of readFmtChunk's object literal in evaluation order, each with
\* the read that computes it ("undefined" where the conditional yields undefined)
FmtFields(size) ==
    << <<"formatCode", "u16">>,
       <<"channels", "u16">>,
       <<"sampleRate", "u32">>,
       <<"dataRate", "u32">>,
       <<"blockSize", "u16">>,
       <<"bitsPerSample", "u16">>,
       <<"extensionSize", IF size >= 18 THEN "u16" ELSE "undefined">>,
       <<"validBits", IF size >= 40 THEN "u16" ELSE "undefined">>,
       <<"speakerPositionMask", IF size >= 40 THEN "u32" ELSE "undefined">>,
       <<"subFormat", IF size >= 40 THEN "str16" ELSE "undefined">> >>

ReadField(buf, pos, kind) ==
    CASE kind = "u16" -> readUInt16LE(buf, pos)
      [] kind = "u32" -> readUInt32LE(buf, pos)
      [] kind = "str16" -> readString(buf, pos, 16)
      [] OTHER -> Ok(None, pos)

\* evaluation of an object literal from property i on, obj being the properties so far
RECURSIVE readFields(_, _, _, _, _)
readFields(buf, pos, fields, i, obj) ==
    IF i > Len(fields)
    THEN Ok(obj, pos)
    ELSE LET r == ReadField(buf, pos, fields[i][2])
             v == IF fields[i][2] = "undefined" THEN None ELSE Some(r.value)
         IN  IF r.ok
             THEN readFields(buf, r.pos, fields, i + 1, (fields[i][1] :> v) @@ obj)
             ELSE Throw(r.pos)

readFmtChunk(buf, pos, size) == readFields(buf, pos, FmtFields(size), 1, <<>>)

readFactChunk(buf, pos, size) ==
    LET r == readUInt32LE(buf, pos)
    IN  IF r.ok THEN Ok([samplesPerChannel |-> Some(r.value)], r.pos) ELSE Throw(r.pos)

\* fmt is the module-level fmtChunk when the call is made; reading .content of
\* undefined throws a TypeError
readDataChunk(buf, pos, size, fmt) ==
    IF ~IsSome(fmt)
    THEN [ok |-> FALSE, err |-> "TypeError", value |-> None, pos |-> pos]
    ELSE Ok([samples |-> Divide(size, Prop(Get(fmt).content, "channels")),
             length |-> Divide(size, Prop(Get(fmt).content, "dataRate"))], pos)

\* readChunk's result, with the chunkId and chunkSize it read (None when the read threw)
ChunkResult(r, id, size) ==
    [ok |-> r.ok, err |-> r.err, value |-> r.value, pos |-> r.pos,
     chunkId |-> id, chunkSize |-> size]

readChunk(buf, pos, fmt) ==
    LET rid == readString(buf, pos, 4)
        rsz == readUInt32LE(buf, rid.pos)
        id == rid.value
        size == rsz.value
        body == IF id = StrFmt THEN readFmtChunk(buf, rsz.pos, size)
                ELSE IF id = StrFact THEN readFactChunk(buf, rsz.pos, size)
                ELSE readDataChunk(buf, rsz.pos, size, fmt)
    IN  IF ~rid.ok THEN ChunkResult(rid, None, None)
        ELSE IF ~rsz.ok THEN ChunkResult(rsz, Some(id), None)
        ELSE IF id = StrFmt \/ id = StrFact \/ id = StrData
        THEN IF body.ok
             THEN ChunkResult(Ok(Some([chunkId |-> id, chunkSize |-> size,
                                       content |-> body.value]), body.pos),
                              Some(id), Some(size))
             ELSE ChunkResult(body, Some(id), Some(size))
        ELSE ChunkResult(Ok(None, advance(buf, rsz.pos, size).pos), Some(id), Some(size))

\* the four bytes of "RIFF", compared in turn by readFile's && chain
RiffBytes == <<82, 73, 70, 70>>

\* the && chain from its i-th operand on: a mismatch ends it without reading on
RECURSIVE readRiffTagFrom(_, _, _)
readRiffTagFrom(buf, pos, i) ==
    IF i > Len(RiffBytes)
    THEN Ok(TRUE, pos)
    ELSE LET r == readUint8(buf, pos)
         IN  IF ~r.ok THEN Throw(r.pos)
             ELSE IF r.value = RiffBytes[i] THEN readRiffTagFrom(buf, r.pos, i + 1)
             ELSE Ok(FALSE, r.pos)

readRiffTag(buf, pos) == readRiffTagFrom(buf, pos, 1)

-----------------------------------------------------------------------------
(* The files read.  readFile takes whatever bytes the file holds; the model   *)
(* draws them from headers and chunks laid out as RIFF lays them out, well    *)
(* formed and not.                                                            *)

\* the two low bytes and the four bytes of a little-endian field holding n
\* (two's complement: LE32(-8) is f8 ff ff ff, the unsigned 4294967288)
LE16(n) == <<n % 256, (n \div 256) % 256>>
LE32(n) == <<n % 256, (n \div 256) % 256, (n \div 65536) % 256, (n \div 16777216) % 256>>

StrWave == <<87, 65, 86, 69>>
StrList == <<76, 73, 83, 84>>

\* n payload bytes that are no field of the format
Filler(n) == [i \in 1..n |-> 16 + i]

\* the first 16 bytes of a fmt payload: PCM, ch channels, 8000 Hz, 16 bit
FmtBase(ch) ==
    LE16(1) \o LE16(ch) \o LE32(8000) \o LE32(16000 * ch) \o LE16(2 * ch) \o LE16(16)

\* a chunk as it lies in the file: tag, declared size, and the bytes that follow
RawChunk(tag, size, payload) == tag \o LE32(size) \o payload

\* a payload of n bytes with the pad byte RIFF puts after an odd length
Padded(bytes) == IF Len(bytes) % 2 = 1 THEN bytes \o <<0>> ELSE bytes

Chunks ==
    { RawChunk(StrFmt, n, Padded(FmtBase(2) \o Filler(n - 16))) : n \in {16, 17, 18, 39, 40} }
    \cup { RawChunk(StrFmt, 16, Filler(4)),
           RawChunk(StrFact, 4, LE32(8)),
           RawChunk(StrFact, 6, LE32(8) \o Filler(2)),
           RawChunk(StrData, 4, Filler(4)),
           RawChunk(StrData, 8, Filler(2)),
           RawChunk(StrList, 2, Filler(2)),
           RawChunk(StrList, 3, Padded(Filler(3))),
           RawChunk(StrList, 10, <<>>),
           RawChunk(StrList, -32, <<>>) }

\* "RIFF" <36> "WAVE"
GoodHeader == <<82, 73, 70, 70>> \o LE32(36) \o StrWave

\* headers that leave the chunks where they are: a size field with its top bit
\* set; a format that is not WAVE; a tag that differs from "RIFF" in its last byte
OtherHeaders ==
    { <<82, 73, 70, 70>> \o <<0, 0, 0, 128>> \o StrWave,
      <<82, 73, 70, 70>> \o LE32(36) \o <<65, 86, 73, 32>>,
      <<82, 73, 70, 88>> \o LE32(36) \o StrWave }

\* a header whose tag differs from "RIFF" in its first byte ("MThd")
ForeignHeader == <<77, 84, 104, 100>> \o LE32(6) \o StrWave

RECURSIVE Bodies(_)
Bodies(k) ==
    IF k = 0 THEN {<<>>}
    ELSE Bodies(k - 1) \cup { b \o c : b \in Bodies(k - 1), c \in Chunks }

\* the last four: an empty file, and files that end inside the header or
\* inside a chunk header
Files ==
    { GoodHeader \o b : b \in Bodies(MaxChunks) }
    \cup { h \o b : h \in OtherHeaders, b \in Bodies(1) }
    \cup { ForeignHeader, <<>>, <<82, 73>>, <<82, 73, 70, 70, 36, 0>>,
           GoodHeader \o <<102, 109>> }

-----------------------------------------------------------------------------
(* readFile, one action per statement *)

\* no cursor operation has been called directly; num is the number and str the
\* string a call returned (0 and "" when it returned neither)
NoLast == [op |-> "none", arg |-> 0, pre |-> 0, ok |-> TRUE, num |-> 0, str |-> <<>>]

\* the module is loaded (fmtChunk = undefined) and readFile is not running
Init ==
    /\ buffer = <<>>
    /\ position = 0
    /\ last = NoLast
    /\ pc = "idle"
    /\ fresh = TRUE
    /\ isRIFF = None
    /\ chunkSize = None
    /\ waveID = None
    /\ chunk = None
    /\ dataChunk = None
    /\ fmtChunk = None
    /\ error = "none"
    /\ trace = <<>>

\* an exception leaves readFile: the promise rejects
Fail(r) ==
    /\ pc' = "failed"
    /\ error' = r.err
    /\ position' = r.pos

TraceEntry(start, r) ==
    [start |-> start, chunkId |-> r.chunkId, chunkSize |-> r.chunkSize,
     ok |-> r.ok, ret |-> r.value, end |-> r.pos]

\* const isRIFF = buff.readUint8() === 0x52 && ...
ReadRiffTag ==
    /\ pc = "riff"
    /\ LET r == readRiffTag(buffer, position)
       IN  IF r.ok
           THEN /\ isRIFF' = Some(r.value)
                /\ position' = r.pos
                /\ pc' = "size"
                /\ error' = error
           ELSE Fail(r) /\ isRIFF' = isRIFF
    /\ UNCHANGED <<buffer, last, fresh, chunkSize, waveID, chunk, dataChunk, fmtChunk, trace>>

\* let chunkSize = buff.readUInt32LE()
ReadRiffSize ==
    /\ pc = "size"
    /\ LET r == readUInt32LE(buffer, position)
       IN  IF r.ok
           THEN /\ chunkSize' = Some(r.value)
                /\ position' = r.pos
                /\ pc' = "wave"
                /\ error' = error
           ELSE Fail(r) /\ chunkSize' = chunkSize
    /\ UNCHANGED <<buffer, last, fresh, isRIFF, waveID, chunk, dataChunk, fmtChunk, trace>>

\* const waveID = buff.readString(4)
ReadWaveID ==
    /\ pc = "wave"
    /\ LET r == readString(buffer, position, 4)
       IN  IF r.ok
           THEN /\ waveID' = Some(r.value)
                /\ position' = r.pos
                /\ pc' = "chunk1"
                /\ error' = error
           ELSE Fail(r) /\ waveID' = waveID
    /\ UNCHANGED <<buffer, last, fresh, isRIFF, chunkSize, chunk, dataChunk, fmtChunk, trace>>

\* const chunk = readChunk(buff); fmtChunk = chunk
ReadFirstChunk ==
    /\ pc = "chunk1"
    /\ LET r == readChunk(buffer, position, fmtChunk)
       IN  /\ trace' = Append(trace, TraceEntry(position, r))
           /\ IF r.ok
              THEN /\ chunk' = r.value
                   /\ fmtChunk' = r.value
                   /\ position' = r.pos
                   /\ pc' = "chunk2"
                   /\ error' = error
              ELSE Fail(r) /\ UNCHANGED <<chunk, fmtChunk>>
    /\ UNCHANGED <<buffer, last, fresh, isRIFF, chunkSize, waveID, dataChunk>>

\* const dataChunk = readChunk(buff), and readFile returns
ReadSecondChunk ==
    /\ pc = "chunk2"
    /\ LET r == readChunk(buffer, position, fmtChunk)
       IN  /\ trace' = Append(trace, TraceEntry(position, r))
           /\ IF r.ok
              THEN /\ dataChunk' = r.value
                   /\ position' = r.pos
                   /\ pc' = "done"
                   /\ error' = error
              ELSE Fail(r) /\ dataChunk' = dataChunk
    /\ UNCHANGED <<buffer, last, fresh, isRIFF, chunkSize, waveID, chunk, fmtChunk>>

\* readFile is called: a new StreamingBuffer over the bytes of the file, at
\* position 0.  The call at module level is the first; the model lets the
\* process call readFile again, with the module-level fmtChunk as the earlier
\* call left it.  The body of readFile after its two awaits runs to completion,
\* so calls that overlap in their awaits still decode one after the other.
CallReadFile ==
    /\ pc = "idle"
    /\ \E file \in Files : buffer' = file
    /\ position' = 0
    /\ pc' = "riff"
    /\ UNCHANGED <<last, fresh, isRIFF, chunkSize, waveID, chunk, dataChunk, fmtChunk,
                   error, trace>>

\* the call has ended (returned or thrown): its cursor and its locals are gone,
\* the module-level fmtChunk stays
EndReadFile ==
    /\ pc \in {"done", "failed"}
    /\ pc' = "idle"
    /\ fresh' = FALSE
    /\ buffer' = <<>>
    /\ position' = 0
    /\ isRIFF' = None
    /\ chunkSize' = None
    /\ waveID' = None
    /\ chunk' = None
    /\ dataChunk' = None
    /\ error' = "none"
    /\ trace' = <<>>
    /\ UNCHANGED <<last, fmtChunk>>

\* what the caller of readFile is given once the call has ended: the promise is
\* fulfilled with undefined (readFile has no return statement) or rejected with
\* the exception; isRIFF, chunkSize, waveID, chunk and dataChunk stay in the call
readFileOutcome ==
    IF pc = "done"
    THEN [settled |-> "fulfilled", value |-> None, reason |-> "none"]
    ELSE [settled |-> "rejected", value |-> None, reason |-> error]

Next ==
    \/ ReadRiffTag
    \/ ReadRiffSize
    \/ ReadWaveID
    \/ ReadFirstChunk
    \/ ReadSecondChunk
    \/ CallReadFile
    \/ EndReadFile

Spec == Init /\ [][Next]_vars

-----------------------------------------------------------------------------
(* The cursor on its own: any sequence of StreamingBuffer calls on one buffer. *)
(* A call that throws leaves the object in use: the caller may catch and go on. *)

ByteVals == {1, 200}

RECURSIVE SeqsUpTo(_)
SeqsUpTo(n) ==
    IF n = 0 THEN {<<>>}
    ELSE SeqsUpTo(n - 1)
         \cup { Append(b, v) : b \in { c \in SeqsUpTo(n - 1) : Len(c) = n - 1 }, v \in ByteVals }

CursorBuffers == SeqsUpTo(MaxLen)

\* new StreamingBuffer(buffer)
CursorInit ==
    /\ buffer \in CursorBuffers
    /\ position = 0
    /\ last = NoLast
    /\ pc = "idle"
    /\ fresh = TRUE
    /\ isRIFF = None
    /\ chunkSize = None
    /\ waveID = None
    /\ chunk = None
    /\ dataChunk = None
    /\ fmtChunk = None
    /\ error = "none"
    /\ trace = <<>>

\* the call op(arg) made at the current position had outcome r, its value a
\* number ("number"), a string ("string") or undefined ("void")
Called(op, arg, r, type) ==
    /\ position' = r.pos
    /\ last' = [op |-> op, arg |-> arg, pre |-> position, ok |-> r.ok,
                num |-> IF r.ok /\ type = "number" THEN r.value ELSE 0,
                str |-> IF r.ok /\ type = "string" THEN r.value ELSE <<>>]
    /\ UNCHANGED buffer
    /\ UNCHANGED decodeVars

DoReset == Called("reset", 0, reset(buffer, position), "void")

DoAdvance ==
    \E amount \in (-MaxAmount)..MaxAmount :
        /\ position + amount >= -MaxAmount
        /\ position + amount <= MaxLen + MaxAmount
        /\ Called("advance", amount, advance(buffer, position, amount), "void")

DoReadUint8 == Called("readUint8", 0, readUint8(buffer, position), "number")

DoPeakUint8 == Called("peakUint8", 0, peakUint8(buffer, position), "number")

DoReadUInt16LE == Called("readUInt16LE", 0, readUInt16LE(buffer, position), "number")

DoReadUInt32LE == Called("readUInt32LE", 0, readUInt32LE(buffer, position), "number")

DoReadChar == Called("readChar", 0, readChar(buffer, position), "string")

DoPeakChar == Called("peakChar", 0, peakChar(buffer, position), "string")

DoReadString ==
    \E length \in 0..MaxAmount :
        Called("readString", length, readString(buffer, position, length), "string")

DoPeakString ==
    \E length \in 0..MaxAmount :
        Called("peakString", length, peakString(buffer, position, length), "string")

CursorNext ==
    \/ DoReset
    \/ DoAdvance
    \/ DoReadUint8
    \/ DoPeakUint8
    \/ DoReadUInt16LE
    \/ DoReadUInt32LE
    \/ DoReadChar
    \/ DoPeakChar
    \/ DoReadString
    \/ DoPeakString

CursorSpec == CursorInit /\ [][CursorNext]_vars

-----------------------------------------------------------------------------
(* Properties *)

\* the readChunk calls made so far by the running readFile call
Entries == { trace[i] : i \in 1..Len(trace) }

\* the running readFile call has ended, by returning or by throwing
Ended == pc \in {"done", "failed"}

\* the 32-bit field at offset o of buf holds the unsigned value of v
IsUnsigned32At(buf, o, v) ==
    /\ v >= 0
    /\ v % 65536 = buf[o + 1] + 256 * buf[o + 2]
    /\ v \div 65536 = buf[o + 3] + 256 * buf[o + 4]

\* the number of chunks of a RIFF body laid out from offset p to the end of buf,
\* each an 8-byte header, its declared payload and a pad byte after an odd
\* payload; -1 when the bytes from p on are no such sequence of chunks
RECURSIVE ChunkCount(_, _)
ChunkCount(buf, p) ==
    IF p = Len(buf) THEN 0
    ELSE IF p + 8 > Len(buf) \/ buf[p + 8] >= 128 THEN -1
    ELSE LET s == BufReadInt32LE(buf, p + 4)
             next == p + 8 + s + (s % 2)
             rest == IF next > Len(buf) THEN -1 ELSE ChunkCount(buf, next)
         IN  IF rest < 0 THEN -1 ELSE rest + 1

\* buf is "RIFF" <size> "WAVE" followed by whole chunks
WellFormed(buf) ==
    /\ Len(buf) >= 12
    /\ SubSeq(buf, 1, 4) = <<82, 73, 70, 70>>
    /\ SubSeq(buf, 9, 12) = <<87, 65, 86, 69>>
    /\ ChunkCount(buf, 12) >= 0

\* C1: the cursor position stays within 0 .. buffer length at every point of a
\* decode.  (Violated: advance adds the chunk size it is given without a check.)
C1_PositionInBounds == position >= 0 /\ position <= Len(buffer)

\* C2: a peek returns what the read at that position returns and leaves the
\* position as it was before the call.  (Violated: peakUint8 increments.)
C2_PeekDoesNotAdvance ==
    /\ last.op = "peakUint8" =>
          /\ position = last.pre
          /\ last.ok = readUint8(buffer, last.pre).ok
          /\ last.ok => last.num = readUint8(buffer, last.pre).value
    /\ last.op = "peakChar" =>
          /\ position = last.pre
          /\ last.ok = readChar(buffer, last.pre).ok
          /\ last.ok => last.str = readChar(buffer, last.pre).value
    /\ last.op = "peakString" =>
          /\ position = last.pre
          /\ last.ok = readString(buffer, last.pre, last.arg).ok
          /\ last.ok => last.str = readString(buffer, last.pre, last.arg).value

\* C3: a decode of a well-formed buffer of k chunks ends in Done, with k chunks
\* decoded and the position at the end of the buffer.  (Violated: readFile
\* calls readChunk exactly twice, whatever the buffer holds.)
C3_AllChunksDecoded ==
    (Ended /\ WellFormed(buffer)) =>
        /\ pc = "done"
        /\ Len(trace) = ChunkCount(buffer, 12)
        /\ position = Len(buffer)

\* C4: a data chunk read when no fmt chunk was read before it in the same decode
\* makes the decode fail, and yields no data record.  (Violated: after a fact
\* chunk the data record is built from undefined fields.)
C4_DataBeforeFmtFails ==
    \A i \in 1..Len(trace) :
        ( /\ trace[i].chunkId = Some(StrData)
          /\ IsSome(trace[i].chunkSize)
          /\ \A j \in 1..(i - 1) : trace[j].chunkId # Some(StrFmt) )
        => (~trace[i].ok /\ trace[i].ret = None)

\* C5: a chunk whose declared size exceeds the bytes left after its 8-byte header
\* makes the decode fail, and the position never passes the end of the buffer.
\* (Violated: unknown and data chunks are not checked against the length.)
C5_TruncationDetected ==
    \A e \in Entries :
        ( /\ IsSome(e.chunkSize)
          /\ \/ Get(e.chunkSize) < 0
             \/ Get(e.chunkSize) > Len(buffer) - (e.start + 8) )
        => (~e.ok /\ e.end <= Len(buffer))

\* C6: an unknown chunk of declared size s read at p is returned as a record of
\* its tag and s, and the next read starts at p + 8 + s, plus one when s is odd.
\* (Violated: readChunk returns undefined for it and skips no pad byte.)
C6_UnknownRecordedAndSkipped ==
    \A e \in Entries :
        ( /\ e.ok
          /\ IsSome(e.chunkSize)
          /\ e.chunkId \notin {Some(StrFmt), Some(StrFact), Some(StrData)} )
        => /\ IsSome(e.ret)
           /\ Prop(Get(e.ret), "chunkId") = Get(e.chunkId)
           /\ Prop(Get(e.ret), "chunkSize") = Get(e.chunkSize)
           /\ e.end = e.start + 8 + Get(e.chunkSize) + (Get(e.chunkSize) % 2)

\* C7: in every fmt chunk decoded, the six base fields are present,
\* extensionSize is present iff the declared size is at least 18, and
\* validBits, speakerPositionMask and subFormat are present iff it is at least 40.
C7_FmtFieldPresence ==
    \A e \in Entries :
        (e.ok /\ e.chunkId = Some(StrFmt)) =>
            LET content == Get(e.ret).content
                size == Get(e.chunkSize)
            IN  /\ \A f \in {"formatCode", "channels", "sampleRate", "dataRate",
                              "blockSize", "bitsPerSample"} : IsSome(Prop(content, f))
                /\ IsSome(Prop(content, "extensionSize")) <=> (size >= 18)
                /\ \A f \in {"validBits", "speakerPositionMask", "subFormat"} :
                       IsSome(Prop(content, f)) <=> (size >= 40)

\* C7 witness: one decode read a fmt chunk of size 40 with all four optional
\* fields and then a fmt chunk of size 17 with none
C7_Witness ==
    /\ Len(trace) = 2
    /\ trace[1].ok /\ trace[1].chunkId = Some(StrFmt) /\ trace[1].chunkSize = Some(40)
    /\ IsSome(Prop(Get(trace[1].ret).content, "subFormat"))
    /\ trace[2].ok /\ trace[2].chunkId = Some(StrFmt) /\ trace[2].chunkSize = Some(17)
    /\ ~IsSome(Prop(Get(trace[2].ret).content, "extensionSize"))

\* C8: once the 12-byte header is read, isRIFF is true iff bytes 0..3 are
\* "RIFF"; and for a header "RIFF" n "WAVE", isRIFF is true, the size is the
\* unsigned n (36 for 24 00 00 00) and the format is "WAVE".  (Violated: a size
\* field with its top bit set is read as a negative number.)
C8_RiffHeaderDecoded ==
    (Len(buffer) >= 12 /\ pc \in {"chunk1", "chunk2", "done", "failed"}) =>
        /\ (isRIFF = Some(TRUE)) <=> (SubSeq(buffer, 1, 4) = <<82, 73, 70, 70>>)
        /\ ( /\ SubSeq(buffer, 1, 4) = <<82, 73, 70, 70>>
             /\ SubSeq(buffer, 9, 12) = <<87, 65, 86, 69>> )
           => /\ isRIFF = Some(TRUE)
              /\ IsSome(chunkSize) /\ IsUnsigned32At(buffer, 4, Get(chunkSize))
              /\ waveID = Some(<<87, 65, 86, 69>>)
        /\ SubSeq(buffer, 1, 12) = <<82, 73, 70, 70, 36, 0, 0, 0, 87, 65, 86, 69>>
           => chunkSize = Some(36)

\* C9: readUInt16LE returns b0 + 256 b1 and advances by 2; readUInt32LE returns
\* the unsigned b0 + 256 b1 + 65536 b2 + 16777216 b3, never a negative number,
\* and advances by 4.  (Violated: readUInt32LE calls Buffer.readInt32LE.)
C9_UnsignedLittleEndian ==
    /\ (last.op = "readUInt16LE" /\ last.ok) =>
          /\ last.num = buffer[last.pre + 1] + 256 * buffer[last.pre + 2]
          /\ last.num \in 0..65535
          /\ position = last.pre + 2
    /\ (last.op = "readUInt32LE" /\ last.ok) =>
          /\ IsUnsigned32At(buffer, last.pre, last.num)
          /\ position = last.pre + 4

\* what readFile makes of buf in a process that has called readFile before:
\* never (fmtChunk is undefined when the call starts)
AloneOutcome(buf) ==
    LET tag == readRiffTag(buf, 0)
        size == readUInt32LE(buf, tag.pos)
        wave == readString(buf, size.pos, 4)
        first == readChunk(buf, wave.pos, None)
        second == readChunk(buf, first.pos, first.value)
    IN  IF ~tag.ok THEN [error |-> tag.err, chunk |-> None, dataChunk |-> None]
        ELSE IF ~size.ok THEN [error |-> size.err, chunk |-> None, dataChunk |-> None]
        ELSE IF ~wave.ok THEN [error |-> wave.err, chunk |-> None, dataChunk |-> None]
        ELSE IF ~first.ok THEN [error |-> first.err, chunk |-> None, dataChunk |-> None]
        ELSE IF ~second.ok
        THEN [error |-> second.err, chunk |-> first.value, dataChunk |-> None]
        ELSE [error |-> "none", chunk |-> first.value, dataChunk |-> second.value]

\* C10: the outcome of a decode (its chunk records, the derived data values, or
\* its error) is the outcome of decoding that buffer alone.  (Violated: the
\* module-level fmtChunk of an earlier call is read by a later one.)
C10_CallsIndependent ==
    Ended => [error |-> error, chunk |-> chunk, dataChunk |-> dataChunk] = AloneOutcome(buffer)


\* C11: in a well-formed buffer, a fmt, fact or data chunk of declared size s
\* read at p leaves the cursor at the start of the next chunk, p + 8 + s, plus
\* one when s is odd.  (Violated: readFmtChunk reads 16, 18 or 40 bytes,
\* readFactChunk 4 and readDataChunk none, whatever s is.)
C11_ChunkBoundariesKept ==
    WellFormed(buffer) =>
        \A e \in Entries :
            (e.ok /\ e.chunkId \in {Some(StrFmt), Some(StrFact), Some(StrData)}) =>
                e.end = e.start + 8 + Get(e.chunkSize) + (Get(e.chunkSize) % 2)

\* C12: advance(n) from p sets the position to p + n when p + n is at most the
\* buffer length, and otherwise fails and leaves the position at p.
\* (Violated: advance never fails.)
C12_AdvanceBoundsChecked ==
    last.op = "advance" =>
        IF last.pre + last.arg <= Len(buffer)
        THEN last.ok /\ position = last.pre + last.arg
        ELSE ~last.ok /\ position = last.pre

\* the outcome o tells the caller of the validation failure what, as the
\* rejection reason or among the failures the fulfilled value lists
Carries(o, what) == o.reason = what \/ (IsSome(o.value) /\ what \in Get(o.value))

\* C13: at the end of a decode whose bytes 0..3 are not "RIFF" the caller is
\* given NotRIFF, and NotWAVE when bytes 8..11 are not "WAVE".  (Violated:
\* isRIFF and waveID are locals that readFile neither tests nor returns.)
C13_HeaderMismatchReported ==
    (Ended /\ Len(buffer) >= 12) =>
        /\ SubSeq(buffer, 1, 4) # <<82, 73, 70, 70>> => Carries(readFileOutcome, "NotRIFF")
        /\ SubSeq(buffer, 9, 12) # <<87, 65, 86, 69>> => Carries(readFileOutcome, "NotWAVE")

\* C14: on every buffer of 12 bytes or more the header stage reads 12 bytes: the
\* tag check ends at offset 4, the size is the field at offsets 4..7, the format
\* the bytes at offsets 8..11, and the first chunk header is read at offset 12.
\* (Violated: the && chain stops reading at the first byte that differs.)
C14_HeaderTakesTwelveBytes ==
    Len(buffer) >= 12 =>
        /\ pc = "size" => position = 4
        /\ IsSome(chunkSize) => Get(chunkSize) = BufReadInt32LE(buffer, 4)
        /\ IsSome(waveID) => Get(waveID) = SubSeq(buffer, 9, 12)
        /\ pc = "chunk1" => position = 12
        /\ Len(trace) >= 1 => trace[1].start = 12

\* C15: the stored fmtChunk is undefined or a chunk with tag "fmt ", and a data
\* record is only ever computed while it is such a chunk.  (Violated: readFile
\* stores whatever the first readChunk call returned.)
C15_CurrentFormatIsFmt ==
    /\ IsSome(fmtChunk) => Get(fmtChunk).chunkId = StrFmt
    /\ \A i \in 1..Len(trace) :
          (trace[i].ok /\ trace[i].chunkId = Some(StrData)) =>
              /\ i = 2
              /\ trace[1].ok /\ trace[1].chunkId = Some(StrFmt)

\* C16: a readUint8, readUInt16LE, readUInt32LE or readString(n) that fails
\* leaves the position where it was before the call.  (Violated: readString
\* has read the characters that were left when its readChar throws.)
C16_FailedReadKeepsPosition ==
    (last.op \in {"readUint8", "readUInt16LE", "readUInt32LE", "readString"} /\ ~last.ok)
        => position = last.pre

=============================================================================
